---- MODULE Spec2Model ----
(***************************************************************************)
(* ECStremity: the Entity component store (entity.py) and the              *)
(* ComponentRegistry (registries/component_registry.py).                   *)
(*                                                                         *)
(* A Python str is a sequence of one-character strings, so that            *)
(* str.upper() is computed and not assumed.  A call argument of type       *)
(* Union[str, Component] is [str |-> s] or [ref |-> d].  A Python dict is  *)
(* a sequence of [key, val] entries in insertion order.                    *)
(***************************************************************************)
EXTENDS Integers, Sequences, FiniteSets, TLC

VARIABLES
    registry,       \* ComponentRegistry: dict  name -> definition
    comps,          \* every Component instance created so far, by identity
    store,          \* store[e]: the dict content of Entity e
    is_destroyed,   \* is_destroyed[e]: Entity._is_destroyed
    uid,            \* uid[e]: Entity.uid
    last            \* the latest call: its arguments, outcome and the hooks it invoked

vars == <<registry, comps, store, is_destroyed, uid, last>>

-----------------------------------------------------------------------------
(* Bounds *)

\* Component instances created over a run.
MaxComponents == 3

-----------------------------------------------------------------------------
(* The universe of the model *)

Entities == {"e1", "e2"}

\* Component definitions (classes).  D1 and D3 carry the same name.
Definitions == {"D1", "D2", "D3", "D4"}

None == "None"

Chars == {"a", "b", "A", "B"}

\* Every str of two characters.
Strings == {<<c1, c2>> : c1 \in Chars, c2 \in Chars}

\* Component.name: the class attribute shared by a definition and its instances.
name(d) ==
    CASE d = "D1" -> <<"A", "B">>
      [] d = "D2" -> <<"B", "A">>
      [] d = "D3" -> <<"A", "B">>
      [] d = "D4" -> <<"B", "B">>

\* The parameters the constructor of a definition takes.
params(d) ==
    CASE d = "D1" -> {"x"}
      [] d = "D2" -> {"x"}
      [] d = "D3" -> {"y"}
      [] d = "D4" -> {"y"}

Str(s) == [str |-> s]
Ref(d) == [ref |-> d]

isinstance_str(component) == "str" \in DOMAIN component

AllForms == {Str(s) : s \in Strings} \cup {Ref(d) : d \in Definitions}

PropertiesArgs == {[x |-> 1], [y |-> 1]}

-----------------------------------------------------------------------------
(* str and dict *)

upper_char(c) ==
    CASE c = "a" -> "A"
      [] c = "b" -> "B"
      [] OTHER -> c

\* str.upper()
upper(s) == [i \in DOMAIN s |-> upper_char(s[i])]

\* Position of key k in dict d, 0 when absent.
dict_find(d, k) ==
    IF \E i \in DOMAIN d : d[i].key = k
    THEN CHOOSE i \in DOMAIN d : d[i].key = k
    ELSE 0

\* dict.__setitem__: a present key keeps its position, a new key goes last.
dict_set(d, k, v) ==
    IF dict_find(d, k) # 0
    THEN [d EXCEPT ![dict_find(d, k)].val = v]
    ELSE Append(d, [key |-> k, val |-> v])

\* dict.__delitem__
dict_del(d, k) ==
    LET p == dict_find(d, k) IN
    IF p = 0 THEN d
    ELSE [i \in 1..(Len(d) - 1) |-> IF i < p THEN d[i] ELSE d[i + 1]]

\* dict.values(), in insertion order
dict_values(d) == [i \in DOMAIN d |-> d[i].val]

\* dict.__eq__: the same keys with the same values, whatever the order.
dict_eq(d1, d2) ==
    {<<d1[i].key, d1[i].val>> : i \in DOMAIN d1}
        = {<<d2[i].key, d2[i].val>> : i \in DOMAIN d2}

-----------------------------------------------------------------------------
(* Component: the base class and the definitions are not part of the two   *)
(* source files; what is needed of them is taken from their contract.      *)

\* The definition's constructor, definition(**properties): the keyword
\* arguments must be the constructor's parameters.
construct_ok(d, properties) == DOMAIN properties = params(d)

\* A freshly constructed instance: no owning entity yet.  since is history,
\* not a field of the program: the instance whose attachment first inserted
\* the store key this instance is held under (0 while it was never attached).
construct(d, properties) ==
    [definition |-> d, fields |-> properties, entity |-> None, since |-> 0]

\* component.name of an instance.
comp_name(c) == name(comps[c].definition)

\* bool(component): a Component defines neither __bool__ nor __len__.
truthy(c) == c \in DOMAIN comps

\* isinstance(component, Component)
isinstance_Component(c) == c \in DOMAIN comps

-----------------------------------------------------------------------------
(* ComponentRegistry *)

\* The lookup that fails: KeyError.
Missing == 0

\* A slip in register: a name already registered keeps its definition.
register_setdefault(reg, d) ==
    IF dict_find(reg, name(d)) # 0 THEN reg ELSE dict_set(reg, name(d), d)

\* register: self[component.name] = component
register(reg, d) == dict_set(reg, name(d), d)

\* A slip in create: the string is looked up as given, without upper().
create_key_raw(component) ==
    IF isinstance_str(component)
    THEN component.str
    ELSE name(component.ref)

\* create, lines 25-28: the key the definition is looked up under.
create_key(component) ==
    IF isinstance_str(component)
    THEN upper(component.str)
    ELSE name(component.ref)

\* create: the definition found and the outcome of constructing from it.
create(reg, component, properties) ==
    LET p == dict_find(reg, create_key(component)) IN
    IF p = 0
    THEN [exc |-> "KeyError", definition |-> None]
    ELSE IF ~construct_ok(reg[p].val, properties)
         THEN [exc |-> "TypeError", definition |-> reg[p].val]
         ELSE [exc |-> "ok", definition |-> reg[p].val]

-----------------------------------------------------------------------------
(* Entity *)

\* A slip in __getitem__: the string is looked up as given, without upper().
getitem_key_raw(component) ==
    IF ~isinstance_str(component)
    THEN name(component.ref)
    ELSE component.str

\* __getitem__: the key looked up in the dict.
getitem_key(component) ==
    upper(IF ~isinstance_str(component)
          THEN name(component.ref)
          ELSE component.str)

\* __getitem__: the instance stored, or Missing for KeyError.
__getitem__(st, component) ==
    LET p == dict_find(st, getitem_key(component)) IN
    IF p = 0 THEN Missing ELSE st[p].val

\* A slip in has: the KeyError is swallowed without returning False.
has_except_pass(st, component) ==
    LET components ==
            IF isinstance_str(component)
            THEN __getitem__(st, component)
            ELSE __getitem__(st, Str(name(component.ref)))
    IN  IF components # Missing /\ truthy(components) THEN "True" ELSE "None"

\* has: "True", "False", or "None" when the function falls off its end.
has(st, component) ==
    LET components ==
            IF isinstance_str(component)
            THEN __getitem__(st, component)
            ELSE __getitem__(st, Str(name(component.ref)))
    IN  IF components = Missing THEN "False"
        ELSE IF truthy(components) THEN "True"
        ELSE "None"

\* owns: component.entity == self, the == of dict.
owns(e, c) ==
    /\ comps[c].entity # None
    /\ dict_eq(store[comps[c].entity], store[e])

\* A slip in _attach: an entry already present is kept (dict.setdefault).
_attach_setdefault(st, cname, c) ==
    IF dict_find(st, cname) # 0 THEN st ELSE dict_set(st, cname, c)

\* A slip in _attach: the entry is dropped and inserted anew, so that a
\* replaced key moves to the end of the store.
_attach_reinsert(st, cname, c) ==
    Append(dict_del(st, cname), [key |-> cname, val |-> c])

\* _attach, line 102: self[component.name] = component
_attach(st, cname, c) == dict_set(st, cname, c)

\* One hook invocation.
Hook(h, c) == [hook |-> h, comp |-> c]

\* A slip in fire_event: evt.prevented is not looked at, every handler runs.
dispatch_all(vals, i, P) ==
    [k \in 1..(Len(vals) - i + 1) |-> Hook("_on_event", vals[k + i - 1])]

\* fire_event, lines 65-69: the hooks invoked on the values from position i
\* on, P being the instances whose handler sets evt.prevented.
RECURSIVE dispatch(_, _, _)
dispatch(vals, i, P) ==
    IF i > Len(vals) THEN <<>>
    ELSE IF ~isinstance_Component(vals[i]) THEN dispatch(vals, i + 1, P)
    ELSE IF vals[i] \in P THEN <<Hook("_on_event", vals[i])>>
    ELSE <<Hook("_on_event", vals[i])>> \o dispatch(vals, i + 1, P)

\* fire_event: evt.prevented on return.
prevented_after(vals, P) ==
    \E i \in DOMAIN vals : isinstance_Component(vals[i]) /\ vals[i] \in P

\* A slip in destroy: the owning context is notified inside the loop, once
\* for each component.
destroy_hooks_notify_each(vals) ==
    [k \in 1..(2 * Len(vals)) |->
        IF k % 2 = 1 THEN Hook("destroy", vals[(k + 1) \div 2])
        ELSE Hook("on_entity_destroyed", Missing)]

\* destroy, lines 59-61: component.destroy() on each value, then the
\* notification of the owning context.
destroy_hooks(vals) ==
    [i \in DOMAIN vals |-> Hook("destroy", vals[i])]
        \o <<Hook("on_entity_destroyed", Missing)>>

-----------------------------------------------------------------------------
(* The calls *)

NoArg == [none |-> TRUE]

Call(op, e, arg, properties, result, ret, hooks, evt) ==
    [op |-> op, e |-> e, arg |-> arg, props |-> properties,
     result |-> result, ret |-> ret, hooks |-> hooks, evt |-> evt]

NoEvt == [prevented |-> FALSE, preventers |-> {}]

Init ==
    /\ registry = <<>>
    /\ comps = <<>>
    /\ store = [e \in Entities |-> <<>>]
    /\ is_destroyed = [e \in Entities |-> FALSE]
    /\ uid = [e \in Entities |-> e]
    /\ last = Call("init", None, NoArg, NoArg, "ok", Missing, <<>>, NoEvt)

\* ComponentRegistry.register(d)
Register(d) ==
    /\ registry' = register(registry, d)
    /\ last' = Call("register", None, Ref(d), NoArg, "ok", Missing, <<>>, NoEvt)
    /\ UNCHANGED <<comps, store, is_destroyed, uid>>

\* ComponentRegistry.create(component, properties), called on its own
Create(component, properties) ==
    LET r == create(registry, component, properties) IN
    /\ r.exc = "ok" => Len(comps) < MaxComponents
    /\ comps' = IF r.exc = "ok"
                THEN Append(comps, construct(r.definition, properties))
                ELSE comps
    /\ last' = Call("create", None, component, properties, r.exc,
                    IF r.exc = "ok" THEN Len(comps) + 1 ELSE Missing,
                    <<>>, NoEvt)
    /\ UNCHANGED <<registry, store, is_destroyed, uid>>

\* A slip in create: the instance built before for a definition is handed
\* out again instead of a new one.
Add_memoized(e, component, properties) ==
    LET r == create(registry, component, properties)
        made == {c \in DOMAIN comps : comps[c].definition = r.definition}
    IN
    IF r.exc # "ok"
    THEN /\ last' = Call("add", e, component, NoArg, r.exc, Missing,
                         <<>>, NoEvt)
         /\ UNCHANGED <<registry, comps, store, is_destroyed, uid>>
    ELSE IF made = {}
    THEN /\ Len(comps) < MaxComponents
         /\ store' = [store EXCEPT
                ![e] = _attach(@, name(r.definition), Len(comps) + 1)]
         /\ comps' = Append(comps,
                [construct(r.definition, properties) EXCEPT
                    !.entity = e, !.since = Len(comps) + 1])
         /\ last' = Call("add", e, component, properties, "True",
                         Len(comps) + 1,
                         <<Hook("_on_attached", Len(comps) + 1)>>, NoEvt)
         /\ UNCHANGED <<registry, is_destroyed, uid>>
    ELSE LET c == CHOOSE c \in made : TRUE IN
         /\ store' = [store EXCEPT ![e] = _attach(@, name(r.definition), c)]
         /\ comps' = [comps EXCEPT ![c].entity = e]
         /\ last' = Call("add", e, component, properties, "True", c,
                         <<Hook("_on_attached", c)>>, NoEvt)
         /\ UNCHANGED <<registry, is_destroyed, uid>>

\* A slip in add: a failure of create is caught and reported as False.
Add_swallow(e, component, properties) ==
    LET r == create(registry, component, properties)
        c == Len(comps) + 1
        old == dict_find(store[e], name(r.definition))
    IN
    IF r.exc # "ok"
    THEN /\ last' = Call("add", e, component, NoArg, "False", Missing,
                         <<>>, NoEvt)
         /\ UNCHANGED <<registry, comps, store, is_destroyed, uid>>
    ELSE /\ Len(comps) < MaxComponents
         /\ store' = [store EXCEPT ![e] = _attach(@, name(r.definition), c)]
         /\ comps' = Append(comps,
                [construct(r.definition, properties) EXCEPT
                    !.entity = e,
                    !.since = IF old = 0 THEN c
                              ELSE IF ~isinstance_Component(store[e][old].val)
                              THEN c
                              ELSE comps[store[e][old].val].since])
         /\ last' = Call("add", e, component, properties, "True", c,
                         <<Hook("_on_attached", c)>>, NoEvt)
         /\ UNCHANGED <<registry, is_destroyed, uid>>

\* Entity.add(component, properties)
Add(e, component, properties) ==
    LET r == create(registry, component, properties)
        c == Len(comps) + 1
        old == dict_find(store[e], name(r.definition))
    IN
    IF r.exc # "ok"
    THEN /\ last' = Call("add", e, component, NoArg, r.exc, Missing,
                         <<>>, NoEvt)
         /\ UNCHANGED <<registry, comps, store, is_destroyed, uid>>
    ELSE /\ Len(comps) < MaxComponents
         /\ store' = [store EXCEPT ![e] = _attach(@, name(r.definition), c)]
         \* component._on_attached(self) sets the back-reference
         /\ comps' = Append(comps,
                [construct(r.definition, properties) EXCEPT
                    !.entity = e,
                    !.since = IF old = 0 THEN c
                              ELSE IF ~isinstance_Component(store[e][old].val)
                              THEN c
                              ELSE comps[store[e][old].val].since])
         /\ last' = Call("add", e, component, properties, "True", c,
                         <<Hook("_on_attached", c)>>, NoEvt)
         /\ UNCHANGED <<registry, is_destroyed, uid>>

\* A slip in remove: a missing component is passed over in silence.
Remove_silent(e, component) ==
    LET c == __getitem__(store[e], component) IN
    IF c = Missing
    THEN /\ last' = Call("remove", e, component, NoArg, "ok", Missing,
                         <<>>, NoEvt)
         /\ UNCHANGED <<registry, comps, store, is_destroyed, uid>>
    ELSE /\ store' = [store EXCEPT ![e] = dict_del(@, comp_name(c))]
         /\ comps' = [comps EXCEPT ![c].entity = None]
         /\ last' = Call("remove", e, component, NoArg, "ok", c,
                         <<Hook("remove", c)>>, NoEvt)
         /\ UNCHANGED <<registry, is_destroyed, uid>>

\* Entity.remove(component): self[component].remove().  Component.remove()
\* drops the store entry of the owning entity and clears the back-reference.
Remove(e, component) ==
    LET c == __getitem__(store[e], component) IN
    IF c = Missing
    THEN /\ last' = Call("remove", e, component, NoArg, "KeyError", Missing,
                         <<>>, NoEvt)
         /\ UNCHANGED <<registry, comps, store, is_destroyed, uid>>
    ELSE LET owner == comps[c].entity IN
         /\ store' = IF owner = None THEN store
                     ELSE [store EXCEPT ![owner] = dict_del(@, comp_name(c))]
         /\ comps' = [comps EXCEPT ![c].entity = None]
         /\ last' = Call("remove", e, component, NoArg, "ok", c,
                         <<Hook("remove", c)>>, NoEvt)
         /\ UNCHANGED <<registry, is_destroyed, uid>>

\* A slip in destroy: the flag is flipped instead of set.
Destroy_toggle(e) ==
    /\ is_destroyed' = [is_destroyed EXCEPT ![e] = ~@]
    /\ last' = Call("destroy", e, NoArg, NoArg, "ok", Missing,
                    destroy_hooks(dict_values(store[e])), NoEvt)
    /\ UNCHANGED <<registry, comps, store, uid>>

\* A slip in destroy: the store is emptied once the components are
\* destroyed.
Destroy_clear(e) ==
    /\ is_destroyed' = [is_destroyed EXCEPT ![e] = TRUE]
    /\ store' = [store EXCEPT ![e] = <<>>]
    /\ last' = Call("destroy", e, NoArg, NoArg, "ok", Missing,
                    destroy_hooks(dict_values(store[e])), NoEvt)
    /\ UNCHANGED <<registry, comps, uid>>

\* Entity.destroy()
Destroy(e) ==
    /\ is_destroyed' = [is_destroyed EXCEPT ![e] = TRUE]
    /\ last' = Call("destroy", e, NoArg, NoArg, "ok", Missing,
                    destroy_hooks(dict_values(store[e])), NoEvt)
    /\ UNCHANGED <<registry, comps, store, uid>>

\* destroy statement by statement.  No call is running: every call returns
\* before the next one is made, a destroy in progress has result "running".
Idle == last.result # "running"

\* destroy, line 58: the flag is set on entry.
DestroyEnter(e) ==
    /\ Idle
    /\ is_destroyed' = [is_destroyed EXCEPT ![e] = TRUE]
    /\ last' = Call("destroy", e, NoArg, NoArg, "running", Missing,
                    <<>>, NoEvt)
    /\ UNCHANGED <<registry, comps, store, uid>>

\* A slip in the loop of destroy: the values are visited last to first.
DestroyComponent_reversed(e) ==
    LET vals == dict_values(store[e]) IN
    /\ last.op = "destroy" /\ last.e = e /\ last.result = "running"
    /\ Len(last.hooks) < Len(vals)
    /\ last' = [last EXCEPT !.hooks =
            Append(@, Hook("destroy", vals[Len(vals) - Len(@)]))]
    /\ UNCHANGED <<registry, comps, store, is_destroyed, uid>>

\* destroy, lines 59-60: one turn of the loop over self.values().
DestroyComponent(e) ==
    LET vals == dict_values(store[e]) IN
    /\ last.op = "destroy" /\ last.e = e /\ last.result = "running"
    /\ Len(last.hooks) < Len(vals)
    /\ last' = [last EXCEPT !.hooks =
            Append(@, Hook("destroy", vals[Len(@) + 1]))]
    /\ UNCHANGED <<registry, comps, store, is_destroyed, uid>>

\* destroy, line 61: the loop is over, the owning context is notified and
\* the call returns.
DestroyNotify(e) ==
    LET vals == dict_values(store[e]) IN
    /\ last.op = "destroy" /\ last.e = e /\ last.result = "running"
    /\ Len(last.hooks) = Len(vals)
    /\ last' = [last EXCEPT
            !.hooks = Append(@, Hook("on_entity_destroyed", Missing)),
            !.result = "ok"]
    /\ UNCHANGED <<registry, comps, store, is_destroyed, uid>>

\* Entity.fire_event(name, data); P: the instances whose handler prevents
FireEvent(e, P) ==
    LET vals == dict_values(store[e]) IN
    /\ last' = Call("fire_event", e, NoArg, NoArg, "ok", Missing,
                    dispatch(vals, 1, P),
                    [prevented |-> prevented_after(vals, P), preventers |-> P])
    /\ UNCHANGED <<registry, comps, store, is_destroyed, uid>>

\* A value that evaluates as empty and is no Component: the empty list.
EmptyEntry == -1

\* A slip in the construction of Entity: a default_factory is set, and a
\* lookup that misses inserts the default instead of failing.
__missing___factory(st, key) == dict_set(st, key, EmptyEntry)

\* defaultdict.__missing__ with default_factory None, as Entity.__init__
\* leaves it: the lookup fails with KeyError and the dict stays as it is.
__missing__(st, key) == st

\* The store of e after self[component] was evaluated.
store_after_lookup(e, component) ==
    IF dict_find(store[e], getitem_key(component)) # 0
    THEN store
    ELSE [store EXCEPT ![e] = __missing__(@, getitem_key(component))]

\* Entity.has(component)
HasCall(e, component) ==
    /\ store' = store_after_lookup(e, component)
    /\ last' = Call("has", e, component, NoArg, has(store[e], component),
                    Missing, <<>>, NoEvt)
    /\ UNCHANGED <<registry, comps, is_destroyed, uid>>

\* Entity.__getitem__(component), as in e[component]
GetItemCall(e, component) ==
    LET c == __getitem__(store[e], component) IN
    /\ store' = store_after_lookup(e, component)
    /\ last' = Call("__getitem__", e, component, NoArg,
                    IF c = Missing THEN "KeyError" ELSE "ok", c, <<>>, NoEvt)
    /\ UNCHANGED <<registry, comps, is_destroyed, uid>>

\* Entity.owns(component), c an instance created before
OwnsCall(e, c) ==
    /\ last' = Call("owns", e, [comp |-> c], NoArg,
                    IF owns(e, c) THEN "True" ELSE "False",
                    Missing, <<>>, NoEvt)
    /\ UNCHANGED <<registry, comps, store, is_destroyed, uid>>

\* dict.__setitem__, which Entity inherits: self[key] = [], an empty list
\* stored under a canonical name without going through add.
SetItem(e, key) ==
    /\ store' = [store EXCEPT ![e] = dict_set(@, key, EmptyEntry)]
    /\ last' = Call("__setitem__", e, Str(key), NoArg, "ok", Missing,
                    <<>>, NoEvt)
    /\ UNCHANGED <<registry, comps, is_destroyed, uid>>

\* Two entities and two kinds: "ab" by a mixed-case string and by reference,
\* "ba" by reference, and "bb", which is never registered here.
SpecDefinitions == {"D1", "D2"}

SpecArgs == {Str(<<"a", "B">>), Str(<<"b", "b">>), Ref("D1"), Ref("D2")}

Next ==
    \/ \E d \in SpecDefinitions : Register(d)
    \/ \E e \in Entities, component \in SpecArgs,
          properties \in PropertiesArgs : Add(e, component, properties)
    \/ \E e \in Entities, component \in SpecArgs : Remove(e, component)
    \/ \E e \in Entities : Destroy(e)
    \/ \E e \in Entities :
          \E P \in SUBSET {store[e][i].val : i \in DOMAIN store[e]} :
              FireEvent(e, P)

Spec == Init /\ [][Next]_vars

\* The registry on its own: register and create calls, with every casing of
\* every two-character name and every definition, D3 replacing D1.
RegistryNext ==
    \/ \E d \in Definitions : Register(d)
    \/ \E component \in AllForms, properties \in PropertiesArgs :
            Create(component, properties)

RegistrySpec == Init /\ [][RegistryNext]_vars

\* One entity and three kinds of distinct names, registered beforehand, so
\* that a store holds up to three entries.
DispatchInit ==
    /\ registry = register(register(register(<<>>, "D1"), "D2"), "D4")
    /\ comps = <<>>
    /\ store = [e \in Entities |-> <<>>]
    /\ is_destroyed = [e \in Entities |-> FALSE]
    /\ uid = [e \in Entities |-> e]
    /\ last = Call("init", None, NoArg, NoArg, "ok", Missing, <<>>, NoEvt)

DispatchArgs == {Str(<<"a", "b">>), Ref("D2"), Str(<<"b", "B">>)}

DispatchNext ==
    \/ \E component \in DispatchArgs, properties \in PropertiesArgs :
            Add("e1", component, properties)
    \/ \E component \in DispatchArgs : Remove("e1", component)
    \/ Destroy("e1")
    \/ \E P \in SUBSET {store["e1"][i].val : i \in DOMAIN store["e1"]} :
            FireEvent("e1", P)

DispatchSpec == DispatchInit /\ [][DispatchNext]_vars

\* One entity whose destroy is followed statement by statement, between
\* adds and removes.
StepNext ==
    \/ /\ Idle
       /\ \E component \in DispatchArgs, properties \in PropertiesArgs :
            Add("e1", component, properties)
    \/ /\ Idle
       /\ \E component \in DispatchArgs : Remove("e1", component)
    \/ DestroyEnter("e1")
    \/ DestroyComponent("e1")
    \/ DestroyNotify("e1")

StepSpec == DispatchInit /\ [][StepNext]_vars

\* An entity whose dict is also written to directly: beside the components
\* that add attaches, a key may hold an empty list.
RawArgs == {Str(<<"a", "B">>), Ref("D2")}

RawForms == {Str(<<"a", "b">>), Ref("D1"), Str(<<"b", "B">>)}

RawNext ==
    \/ \E d \in SpecDefinitions : Register(d)
    \/ \E component \in RawArgs, properties \in PropertiesArgs :
            Add("e1", component, properties)
    \/ \E key \in {<<"A", "B">>, <<"B", "B">>} : SetItem("e1", key)
    \/ \E component \in RawForms : HasCall("e1", component)
    \/ \E P \in SUBSET {store["e1"][i].val : i \in DOMAIN store["e1"]} :
            FireEvent("e1", P)

RawSpec == Init /\ [][RawNext]_vars

\* Two entities, two kinds registered beforehand, and every method of
\* Entity, the ones that only read included.
ReadInit ==
    /\ registry = register(register(<<>>, "D1"), "D2")
    /\ comps = <<>>
    /\ store = [e \in Entities |-> <<>>]
    /\ is_destroyed = [e \in Entities |-> FALSE]
    /\ uid = [e \in Entities |-> e]
    /\ last = Call("init", None, NoArg, NoArg, "ok", Missing, <<>>, NoEvt)

ReadArgs == {Str(<<"a", "B">>), Ref("D2")}

ReadNext ==
    \/ \E e \in Entities, component \in ReadArgs,
          properties \in PropertiesArgs : Add(e, component, properties)
    \/ \E e \in Entities, component \in ReadArgs : Remove(e, component)
    \/ \E e \in Entities : Destroy(e)
    \/ \E e \in Entities :
          \E P \in SUBSET {store[e][i].val : i \in DOMAIN store[e]} :
              FireEvent(e, P)
    \/ \E e \in Entities, component \in ReadArgs : HasCall(e, component)
    \/ \E e \in Entities, component \in ReadArgs : GetItemCall(e, component)
    \/ \E e \in Entities, c \in DOMAIN comps : OwnsCall(e, c)

ReadSpec == ReadInit /\ [][ReadNext]_vars

-----------------------------------------------------------------------------
(* What the claims speak of *)

\* The canonical name a call argument stands for: the letters of a string
\* whatever their case, the name of a definition.
KindOf(f) ==
    IF isinstance_str(f)
    THEN [i \in DOMAIN f.str |-> upper_char(f.str[i])]
    ELSE name(f.ref)

\* Every way of naming kind k: each casing, each definition of that name.
Forms(k) == {f \in AllForms : KindOf(f) = k}

\* The entry of kind k in a store, as the dict holds it.
Held(st, k) == {st[i].val : i \in {j \in DOMAIN st : st[j].key = k}}

-----------------------------------------------------------------------------
(* C1 *)

\* C1: after e.add(K, props) has returned True, e.has(K) is True and e[K] is
\* the instance that this add created, of kind K and with the fields of
\* props, for every way of naming K: any casing of the string, or a reference.
C1_AddThenHasAndLookup ==
    (last.op = "add" /\ last.result = "True") =>
        LET c == last.ret IN
        /\ c = Len(comps)
        /\ comp_name(c) = KindOf(last.arg)
        /\ comps[c].fields = last.props
        /\ \A f \in Forms(KindOf(last.arg)) :
              /\ has(store[last.e], f) = "True"
              /\ __getitem__(store[last.e], f) = c

\* An add by a mixed-case string that replaced an earlier instance of the kind.
C1_Witness ==
    /\ last.op = "add" /\ last.result = "True"
    /\ last.arg = Str(<<"a", "B">>)
    /\ \E c0 \in 1..(last.ret - 1) :
          comp_name(c0) = comp_name(last.ret) /\ comps[c0].entity = last.e

-----------------------------------------------------------------------------
(* C2, C3: fire_event *)

\* How often the latest call invoked hook h of instance c.
Count(h, c) ==
    Cardinality({k \in DOMAIN last.hooks : last.hooks[k] = Hook(h, c)})

\* The values of the store the latest call was made on.
LastVals == dict_values(store[last.e])

\* C2: in fire_event, if the event hook of the component at store position i
\* sets prevented, then no component stored after i has its event hook
\* invoked, every component stored before i had it invoked exactly once, and
\* the event returned has prevented = True.
C2_PreventStopsDispatch ==
    last.op = "fire_event" =>
        \A i \in DOMAIN LastVals :
            (Count("_on_event", LastVals[i]) > 0
                /\ LastVals[i] \in last.evt.preventers) =>
                /\ \A j \in DOMAIN LastVals :
                      j > i => Count("_on_event", LastVals[j]) = 0
                /\ \A j \in DOMAIN LastVals :
                      j < i => Count("_on_event", LastVals[j]) = 1
                /\ last.evt.prevented

\* Three components stored, the handler of the second one prevents.
C2_Witness ==
    /\ last.op = "fire_event"
    /\ Len(LastVals) = 3
    /\ LastVals[1] \notin last.evt.preventers
    /\ LastVals[2] \in last.evt.preventers
    /\ Count("_on_event", LastVals[2]) = 1

\* The stored components of the latest call's entity in the order in which
\* their keys were inserted.
InInsertionOrder(vals) ==
    \A i, j \in DOMAIN vals :
        i < j => comps[vals[i]].since < comps[vals[j]].since

\* C3: when no handler sets prevented, fire_event invokes the event hook of
\* every stored component exactly once, in the order in which the store keys
\* were inserted, and returns an event with prevented = False.  The order is
\* a function of the add and remove calls made, the same in every run.
C3_FullDispatchInOrder ==
    (last.op = "fire_event"
        /\ \A i \in DOMAIN LastVals : LastVals[i] \notin last.evt.preventers) =>
        /\ Len(last.hooks) = Len(LastVals)
        /\ \A i \in DOMAIN LastVals :
              last.hooks[i] = Hook("_on_event", LastVals[i])
        /\ InInsertionOrder(LastVals)
        /\ ~last.evt.prevented

\* Two components stored, the first of them attached last (it replaced an
\* earlier instance under its key), and no handler prevents.
C3_Witness ==
    /\ last.op = "fire_event"
    /\ Len(LastVals) = 2
    /\ Len(last.hooks) = 2
    /\ LastVals[1] > LastVals[2]
    /\ last.evt.preventers = {}

-----------------------------------------------------------------------------
(* C4: destroy *)

\* The instances attached to e and not removed since: those in its store and
\* those replaced there by a later add.
AttachedTo(e) == {c \in DOMAIN comps : comps[c].entity = e}

\* The destruction hooks of the latest call, in the order of their invocation.
DestroyHooks == SelectSeq(last.hooks, LAMBDA h : h.hook = "destroy")

\* C4 as stated: destroy() sets is_destroyed, invokes the destruction hook
\* exactly once on every component that was attached to e, in the order in
\* which they were attached, and notifies the owning context exactly once.
C4_AsStated ==
    last.op = "destroy" =>
        /\ is_destroyed[last.e]
        /\ \A c \in AttachedTo(last.e) : Count("destroy", c) = 1
        /\ \A k, l \in DOMAIN DestroyHooks :
              k < l => DestroyHooks[k].comp < DestroyHooks[l].comp
        /\ Count("on_entity_destroyed", Missing) = 1

\* C4 (amended): destroy() sets is_destroyed, invokes the destruction hook
\* exactly once on every component held in the store at that time and on no
\* other (a component replaced by a later add gets none), in store order,
\* which is the order in which the store keys were inserted, and notifies the
\* owning context exactly once.
C4_DestroyStoredInStoreOrder ==
    last.op = "destroy" =>
        /\ is_destroyed[last.e]
        /\ \A c \in DOMAIN comps :
              Count("destroy", c) =
                  IF \E i \in DOMAIN LastVals : LastVals[i] = c THEN 1 ELSE 0
        /\ DestroyHooks = [i \in DOMAIN LastVals |-> Hook("destroy", LastVals[i])]
        /\ InInsertionOrder(LastVals)
        /\ Count("on_entity_destroyed", Missing) = 1

\* A destroy of a store of two whose first entry was attached last, having
\* replaced an earlier instance.
C4_Witness ==
    /\ last.op = "destroy"
    /\ Len(LastVals) = 2
    /\ LastVals[1] > LastVals[2]
    /\ \E c \in AttachedTo(last.e) : Count("destroy", c) = 0

-----------------------------------------------------------------------------
(* C5, C6: remove *)

C6_RemoveMissingFails ==
    [][last'.op = "remove" =>
        LET e == last'.e
            K == KindOf(last'.arg)
        IN  /\ (Held(store[e], K) = {}) <=> (last'.result = "KeyError")
            /\ last'.result = "KeyError" =>
                  /\ last'.hooks = <<>>
                  /\ store' = store /\ comps' = comps
                  /\ is_destroyed' = is_destroyed /\ uid' = uid
                  /\ \A f \in Forms(K) : __getitem__(store'[e], f) = Missing
    ]_vars

\* A failed removal from a store that holds a component of another kind.
C6_Witness ==
    /\ last.op = "remove" /\ last.result = "KeyError"
    /\ store[last.e] # <<>>

-----------------------------------------------------------------------------
(* C7: name resolution *)

\* The canonical names: the upper-case strings.
CanonicalNames == {s \in Strings : \A i \in DOMAIN s : upper_char(s[i]) = s[i]}

\* C7: for every entity and every kind, has gives the same result for the
\* lower-case name, the upper-case name, every mixed casing and every
\* definition of that name, and so does e[...]: the component stored under
\* the canonical name, or KeyError when there is none.
C7_FormsAgree ==
    \A e \in Entities, k \in CanonicalNames :
        \A f \in Forms(k) :
            /\ has(store[e], f) = IF Held(store[e], k) = {} THEN "False" ELSE "True"
            /\ Held(store[e], k) = {} => __getitem__(store[e], f) = Missing
            /\ Held(store[e], k) # {} => __getitem__(store[e], f) \in Held(store[e], k)

\* One entity holds "AB" and not "BA", the other holds "BA".
C7_Witness ==
    /\ Held(store["e1"], <<"A", "B">>) # {}
    /\ Held(store["e1"], <<"B", "A">>) = {}
    /\ Held(store["e2"], <<"B", "A">>) # {}

-----------------------------------------------------------------------------
(* C8: owns *)

\* C8 as stated: e.owns(c) is true if and only if c is held in e's store and
\* no other entity is c's back-reference; a component replaced by a later add
\* under the same name is not owned.
C8_AsStated ==
    \A e \in Entities, c \in DOMAIN comps :
        owns(e, c) <=>
            /\ \E i \in DOMAIN store[e] : store[e][i].val = c
            /\ comps[c].entity \notin (Entities \ {e})

-----------------------------------------------------------------------------
(* C9, C10: the registry *)

\* What create did in a step: the outcome, and the instance appended if any.
Created(d, properties) ==
    /\ last'.result = "ok"
    /\ last'.ret = Len(comps) + 1
    /\ Len(comps') = Len(comps) + 1
    /\ \A c \in DOMAIN comps : comps'[c] = comps[c]
    /\ comps'[last'.ret].definition = d
    /\ comps'[last'.ret].fields = properties
    /\ comps'[last'.ret].entity = None

\* C9 as stated: create(n, props) fails with KeyError exactly when nothing is
\* registered under the canonical name of n, and otherwise returns a new
\* instance built from props by the definition registered under that name;
\* create leaves the registry as it was.
C9_AsStated ==
    [][last'.op = "create" =>
        LET K == KindOf(last'.arg) IN
        /\ (Held(registry, K) = {}) <=> (last'.result = "KeyError")
        /\ \A d \in Held(registry, K) : Created(d, last'.props)
        /\ registry' = registry
    ]_vars

\* C9 (amended): create(n, props) fails with KeyError exactly when nothing is
\* registered under the canonical name of n; otherwise, when props are the
\* construction parameters of the definition registered under that name, it
\* returns a new instance built from props by that definition, and when they
\* are not it fails with TypeError and creates nothing; create leaves the
\* registry as it was.
C9_CreateOutcome ==
    [][last'.op = "create" =>
        LET K == KindOf(last'.arg) IN
        /\ (Held(registry, K) = {}) <=> (last'.result = "KeyError")
        /\ \A d \in Held(registry, K) :
              IF DOMAIN last'.props = params(d)
              THEN Created(d, last'.props)
              ELSE last'.result = "TypeError" /\ comps' = comps
        /\ last'.result = "KeyError" => comps' = comps
        /\ registry' = registry
    ]_vars

\* A create by a lower-case string, after D3 has taken the place of D1.
C9_Witness ==
    /\ last.op = "create" /\ last.result = "ok"
    /\ last.arg = Str(<<"a", "b">>)
    /\ comps[last.ret].definition = "D3"
    /\ \E c \in DOMAIN comps : comps[c].definition = "D1"

\* C10: register(d) stores d under the upper-case form of its name, in the
\* place of any definition registered under it before and leaving the other
\* names alone, so that create given any casing of the name, or d itself,
\* finds d; no other call changes what a name is registered to, and a create
\* that succeeds builds an instance of the definition registered last.
C10_RegisterThenResolve ==
    [][/\ last'.op = "register" =>
            LET d == last'.arg.ref IN
            /\ last'.result = "ok"
            /\ Held(registry', upper(name(d))) = {d}
            /\ \A k \in CanonicalNames \ {upper(name(d))} :
                  Held(registry', k) = Held(registry, k)
            /\ \A f \in Forms(upper(name(d))) \cup {Ref(d)} :
                  \A properties \in PropertiesArgs :
                      create(registry', f, properties).definition = d
       /\ last'.op # "register" =>
            \A k \in CanonicalNames : Held(registry', k) = Held(registry, k)
       /\ (last'.op = "create" /\ last'.result = "ok") =>
            Held(registry, KindOf(last'.arg)) = {comps'[last'.ret].definition}
    ]_vars

\* D3 has just been registered in the place of D1, of which an instance
\* had been created.
C10_Witness ==
    /\ last.op = "register" /\ last.arg = Ref("D3")
    /\ \E c \in DOMAIN comps : comps[c].definition = "D1"
    /\ Held(registry, <<"A", "B">>) = {"D3"}

-----------------------------------------------------------------------------
(* C11: has returns a boolean *)

\* The entry under canonical name k evaluates as non-empty.
NonEmptyEntry(st, k) == \E v \in Held(st, k) : truthy(v)

\* C11: for every entity and every name or reference, has returns a boolean:
\* True when a non-empty entry exists under the canonical name, and False,
\* not None, in every other case, a missing name and an entry that evaluates
\* as empty included.
C11_AsStated ==
    \A e \in Entities, f \in AllForms :
        has(store[e], f) =
            IF NonEmptyEntry(store[e], KindOf(f)) THEN "True" ELSE "False"

-----------------------------------------------------------------------------
(* C12: is_destroyed is monotonic *)

\* C12: is_destroyed is false after construction, and no call of add,
\* remove, destroy, fire_event, has, owns or e[...] takes it back from true
\* to false.
C12_IsDestroyedMonotonic ==
    /\ \A e \in Entities : ~is_destroyed[e]
    /\ [][\A e \in Entities : is_destroyed[e] => is_destroyed'[e]]_vars

\* An add that succeeded on an entity destroyed before, the other entity
\* not being destroyed.
C12_Witness ==
    /\ last.op = "add" /\ last.result = "True"
    /\ is_destroyed[last.e]
    /\ \E e \in Entities : ~is_destroyed[e]

-----------------------------------------------------------------------------
(* C13: no attach or detach once destroyed *)

\* C13 as stated: once is_destroyed is true for an entity, no later call
\* attaches or detaches a component: the entries of its store stay the same,
\* and no attachment hook is invoked with that entity.
C13_AsStated ==
    [][\A e \in Entities :
        is_destroyed[e] =>
            /\ store'[e] = store[e]
            /\ ~(last'.op = "add" /\ last'.e = e /\ last'.hooks # <<>>)
    ]_vars

-----------------------------------------------------------------------------
(* C14: an instance is held once *)

\* The places that hold instance c: an entity and a position in its store.
Places(c) ==
    {<<e, i>> \in Entities \X (1..MaxComponents) :
        i \in DOMAIN store[e] /\ store[e][i].val = c}

\* C14: each component instance is held in the store of at most one entity
\* and under at most one key, and an instance held in the store of e has e
\* as its back-reference.
C14_HeldOnceByItsOwner ==
    \A c \in DOMAIN comps :
        /\ Cardinality(Places(c)) <= 1
        /\ \A p \in Places(c) : comps[c].entity = p[1]

\* Both entities hold a component of the same kind, and a third instance
\* is held nowhere.
C14_Witness ==
    /\ Held(store["e1"], <<"A", "B">>) # {}
    /\ Held(store["e2"], <<"A", "B">>) # {}
    /\ \E c \in DOMAIN comps : Places(c) = {}

-----------------------------------------------------------------------------
(* C15: add of a kind that is already attached *)

\* The positions of store st that hold key k.
KeyPositions(st, k) == {i \in DOMAIN st : st[i].key = k}

\* C15: when e.add(K, props) is called while a component of kind K is
\* attached, the store afterwards holds exactly one entry for the canonical
\* name of K, that entry is the new instance, the number of entries is the
\* same, the replaced instance gets neither a destruction hook nor a removal
\* call, and the only hook invoked is the attachment hook of the new
\* instance, once, with e.
C15_ReplacingAdd ==
    [][\A e \in Entities :
        (/\ last'.op = "add" /\ last'.result = "True" /\ last'.e = e
         /\ last'.ret \in DOMAIN comps'
         /\ Held(store[e], name(comps'[last'.ret].definition)) # {})
        =>
        LET new == last'.ret
            k == name(comps'[new].definition)
        IN
        /\ new \notin DOMAIN comps
        /\ Cardinality(KeyPositions(store'[e], k)) = 1
        /\ Held(store'[e], k) = {new}
        /\ Len(store'[e]) = Len(store[e])
        /\ last'.hooks = <<Hook("_on_attached", new)>>
        /\ comps'[new].entity = e
        /\ \A old \in Held(store[e], k) : comps'[old] = comps[old]
    ]_vars

\* An add that replaced the instance of its kind in a store of two entries:
\* the key of the new instance is older than the instance.
C15_Witness ==
    /\ last.op = "add" /\ last.result = "True"
    /\ comps[last.ret].since < last.ret
    /\ Len(store[last.e]) = 2
    /\ \E c \in AttachedTo(last.e) :
            /\ c # last.ret
            /\ comps[c].definition = comps[last.ret].definition

-----------------------------------------------------------------------------
(* C16: the order of the steps of one destroy *)

\* C16: within one destroy() call, is_destroyed is true before the first
\* destruction hook is invoked, so that every destruction hook sees it true;
\* the destruction hooks run one at a time in store order; and the
\* notification on_entity_destroyed is sent only after the destruction hook
\* of the last component, the hooks of the whole call being those of
\* destroy_hooks.
C16_DestroyStepsInOrder ==
    [][(last'.op = "destroy" /\ last'.hooks # <<>>) =>
        LET e == last'.e
            vals == dict_values(store[e])
            n == Len(last'.hooks)
        IN
        /\ is_destroyed[e] /\ is_destroyed'[e]
        /\ last.op = "destroy" /\ last.e = e
        /\ n = Len(last.hooks) + 1
        /\ store' = store
        /\ n <= Len(vals) + 1
        /\ \A k \in 1..n :
            IF k <= Len(vals)
            THEN last'.hooks[k] = Hook("destroy", vals[k])
            ELSE last'.hooks[k] = Hook("on_entity_destroyed", Missing)
        /\ last'.result = IF n = Len(vals) + 1 THEN "ok" ELSE "running"
        /\ last'.result = "ok" => last'.hooks = destroy_hooks(vals)
    ]_vars

\* A destroy that has run the hook of the first of two components, the
\* second made before the first, and has not notified yet.
C16_Witness ==
    /\ last.op = "destroy" /\ last.result = "running"
    /\ is_destroyed[last.e]
    /\ Len(LastVals) = 2 /\ LastVals[1] > LastVals[2]
    /\ last.hooks = <<Hook("destroy", LastVals[1])>>

-----------------------------------------------------------------------------
(* C17: an add whose creation fails *)

\* C17: if the creation of the component fails during e.add, with
\* NotRegistered (KeyError) for a name that has no definition or with
\* InvalidConfiguration (TypeError) for properties that do not fit, the
\* error reaches the caller of add, add does not return True, no attachment
\* hook is invoked, and the store of e, is_destroyed and uid are as before.
C17_FailedAddChangesNothing ==
    [][last'.op = "add" =>
        LET registered == Held(registry, KindOf(last'.arg)) IN
        /\ last'.result \in {"True", "KeyError", "TypeError"}
        /\ (last'.result = "KeyError") <=> (registered = {})
        /\ last'.result = "True" =>
                \A d \in registered : construct_ok(d, last'.props)
        /\ last'.result # "True" =>
                /\ last'.hooks = <<>>
                /\ last'.ret = Missing
                /\ store' = store
                /\ comps' = comps
                /\ is_destroyed' = is_destroyed
                /\ uid' = uid
                /\ registry' = registry
    ]_vars

\* An add that failed on its properties, for a registered kind, on an
\* entity that holds a component.
C17_Witness ==
    /\ last.op = "add" /\ last.result = "TypeError"
    /\ store[last.e] # <<>>
    /\ Held(registry, KindOf(last.arg)) # {}

-----------------------------------------------------------------------------
(* C18: owns and identity *)

\* C18 as stated: owns compares by identity: for two distinct entities e1
\* and e2 and a component c whose back-reference is e1, e2.owns(c) is False
\* in every reachable state, also when the stores of e1 and e2 have equal
\* contents, both being empty for example.
C18_AsStated ==
    last.op = "owns" =>
        LET c == last.arg.comp IN
        (comps[c].entity \in Entities /\ comps[c].entity # last.e)
            => last.result = "False"

-----------------------------------------------------------------------------
(* C19: the read-style operations *)

\* C19: has, owns, indexed lookup and fire_event never change the state of
\* the entity: after any of them, whether it succeeds or fails, the store
\* has the same keys, values and order, and is_destroyed and uid are the
\* same; looking up or testing a name that is absent creates no default
\* entry for it.
C19_ReadsChangeNothing ==
    [][last'.op \in {"has", "owns", "__getitem__", "fire_event"} =>
        /\ store' = store
        /\ is_destroyed' = is_destroyed
        /\ uid' = uid
        /\ comps' = comps
    ]_vars

\* A lookup that failed on an absent name, on an entity that holds another
\* component, and for which has is False afterwards.
C19_Witness ==
    /\ last.op = "__getitem__" /\ last.result = "KeyError"
    /\ Len(store[last.e]) = 1
    /\ has(store[last.e], last.arg) = "False"

-----------------------------------------------------------------------------
(* C20: the store after destroy *)

\* C20: destroy() does not empty the store: its keys, values and order after
\* destroy() are those before it, so has(K) stays True for every kind
\* attached at the time; a fire_event after destroy() still delivers the
\* event to the components, destroyed as they are; and a second destroy()
\* invokes the destruction hook of every stored component again and
\* notifies the owning context a second time.
C20_DestroyKeepsStore ==
    [][/\ last'.op = "destroy" =>
            LET e == last'.e
                vals == dict_values(store'[e])
            IN
            /\ store' = store
            /\ comps' = comps
            /\ \A f \in AllForms :
                    has(store[e], f) = "True" => has(store'[e], f) = "True"
            /\ Len(last'.hooks) = Len(vals) + 1
            /\ \A i \in DOMAIN vals :
                    last'.hooks[i] = Hook("destroy", vals[i])
            /\ last'.hooks[Len(vals) + 1] = Hook("on_entity_destroyed", Missing)
       /\ (last'.op = "fire_event" /\ is_destroyed[last'.e]) =>
            LET vals == dict_values(store[last'.e])
                P == last'.evt.preventers
                got(c) == Cardinality({k \in DOMAIN last'.hooks :
                                last'.hooks[k] = Hook("_on_event", c)})
            IN
            \A i \in DOMAIN vals :
                (\A j \in 1..(i - 1) : vals[j] \notin P) => got(vals[i]) = 1
    ]_vars

\* A fire_event on a destroyed entity that reached both of its components.
C20_Witness ==
    /\ last.op = "fire_event"
    /\ is_destroyed[last.e]
    /\ Len(LastVals) = 2
    /\ \A i \in 1..2 : Count("_on_event", LastVals[i]) = 1

====
